---- MODULE Spec2Model ----
(***************************************************************************)
(* The Kripke model of MPL v1.3.2 (two edge lists: preorders, relations).  *)
(* State indices are 0-based as in the source; slot i of the JavaScript    *)
(* array _states is states[i + 1].  A JavaScript array is a reference: two *)
(* closure variables that hold the same array object see each other's      *)
(* pushes.  The *Shared flags record which views hold the very array that  *)
(* _preorders / _relations hold now.                                       *)
(* The module also holds the regular-expression parser, the printer and    *)
(* the single-relation Model of MPL 1.0.0.                                 *)
(***************************************************************************)
EXTENDS Integers, Sequences, FiniteSets, TLC

VARIABLES
  states,            \* _states: one slot per allotted index, null or {assignment}
  preorders,         \* _preorders: list of [source, target]
  relations,         \* _relations: list of [source, target]
  transPreorders,    \* _transPreorders: contents of the array it refers to
  transPreShared,    \* _transPreorders === _preorders (same array object)
  transRelations,    \* _transRelations
  transRelShared,    \* _transRelations === _relations
  preordersToEval,   \* _preordersToEval
  evalPreShared,     \* _preordersToEval === _preorders
  relationsToEval,   \* _relationsToEval (always a fresh array built by unify)
  rules,             \* _rules: three flags, index 0..2 stored at 1..3
  last,              \* the last call: operation, indices, kind, what it returned
  ncalls,            \* number of calls made so far
  states1,           \* _states of the single-relation Model of MPL 1.0.0
  run                \* the call that is running step by step, and where it is

vars == <<states, preorders, relations, transPreorders, transPreShared,
          transRelations, transRelShared, preordersToEval, evalPreShared,
          relationsToEval, rules, last, ncalls, states1, run>>

---------------------------------------------------------------------------
(* Bounds *)

MaxStates == 3       \* slots an addState may allot
MaxCalls == 3        \* calls made on the model in one run

---------------------------------------------------------------------------
(* Values *)

\* A variable name is its sequence of characters.
P == <<"p">>
Q == <<"q">>
PropVars == {P, Q}

\* A slot of _states: null, or an object whose assignment lists the keys
\* stored (all with value true) in insertion order.
Null == [live |-> FALSE, assignment |-> <<>>]
State(a) == [live |-> TRUE, assignment |-> a]

Idx == 0 .. MaxStates - 1
Kinds == {"preorders", "relations"}

Range(s) == {s[i] : i \in DOMAIN s}

\* The element of a one-element set: {e(x) : x \in {v}} computes v once.
The(S) == CHOOSE x \in S : TRUE

\* Assignment objects a caller passes: entries <<name, value>> in key order,
\* keys distinct.
Updates ==
  {u \in UNION {[1 .. n -> PropVars \X BOOLEAN] :
                  n \in 0 .. Cardinality(PropVars)} :
     \A i, j \in DOMAIN u : i # j => u[i][1] # u[j][1]}

\* live: whether _states[src] held a state when the call was made.
NoCall == [op |-> "new", src |-> 0, tgt |-> 0, kind |-> "", live |-> FALSE,
           ret |-> "undefined"]
Call(op, src, tgt, kind, live, ret) ==
  [op |-> op, src |-> src, tgt |-> tgt, kind |-> kind, live |-> live,
   ret |-> ret]

---------------------------------------------------------------------------
(* Helpers of Model *)

\* !!_states[i]
Live(st, i) == i \in 0 .. Len(st) - 1 /\ st[i + 1].live

listSearch(l, s) == \E n \in DOMAIN l : l[n] = s

listRemove(l, s) == SelectSeq(l, LAMBDA e : e # s)

\* Object.keys(_states[i].assignment) as a set
Keys(st, i) == Range(st[i + 1].assignment)

\* The k, i, j loops of updateTransitiveClosure over the array temp, pushing
\* into it as they go; c counts the iterations done.
RECURSIVE closureLoop(_, _, _)
closureLoop(temp, l, c) ==
  IF c >= l * l * l THEN temp
  ELSE LET k == c \div (l * l)
           i == (c \div l) % l
           j == c % l
       IN closureLoop(
            IF /\ listSearch(temp, <<i, k>>)
               /\ listSearch(temp, <<k, j>>)
               /\ ~listSearch(temp, <<i, j>>)
            THEN Append(temp, <<i, j>>)
            ELSE temp,
            l, c + 1)

transitiveClosure(temp, l) == closureLoop(temp, l, 0)

---------------------------------------------------------------------------
(* addTransition *)

\* The check with source and target exchanged.
monotoneReversed(st, source, target) ==
  Keys(st, target) \subseteq Keys(st, source)

\* sState.every(e => tState.includes(e))
monotone(st, source, target) == Keys(st, source) \subseteq Keys(st, target)

\* The body of addTransition on the arrays pre and rel: what it returns, the
\* arrays afterwards, and whether it got as far as updateTransitiveClosure.
addTransitionCore(st, pre, rel, source, target, type) ==
  IF ~Live(st, source) \/ ~Live(st, target)
  THEN [ret |-> "false", pre |-> pre, rel |-> rel, closed |-> FALSE]
  ELSE IF type = "preorders" /\ ~monotone(st, source, target)
  THEN [ret |-> "false", pre |-> pre, rel |-> rel, closed |-> FALSE]
  ELSE LET successors == IF type = "preorders" THEN pre ELSE rel
           found == listSearch(successors, <<source, target>>)
           pre1 == IF ~found /\ type = "preorders"
                   THEN Append(pre, <<source, target>>) ELSE pre
           rel1 == IF ~found /\ type # "preorders"
                   THEN Append(rel, <<source, target>>) ELSE rel
       IN [ret |-> "true", pre |-> transitiveClosure(pre1, Len(st)),
           rel |-> rel1, closed |-> TRUE]

---------------------------------------------------------------------------
(* Successor queries *)

RECURSIVE targetsOf(_, _)
targetsOf(l, source) ==
  IF l = <<>> THEN <<>>
  ELSE IF Head(l)[1] = source
       THEN <<Head(l)[2]>> \o targetsOf(Tail(l), source)
       ELSE targetsOf(Tail(l), source)

RECURSIVE sourcesOf(_, _)
sourcesOf(l, target) ==
  IF l = <<>> THEN <<>>
  ELSE IF Head(l)[2] = target
       THEN <<Head(l)[1]>> \o sourcesOf(Tail(l), target)
       ELSE sourcesOf(Tail(l), target)

\* Each query returns undefined for a slot that is not live; the operators
\* are used on live slots only.
getPreordersOf(pre, source) == targetsOf(pre, source)
getPastPreordersOf(pre, source) == sourcesOf(pre, source)
getRelationsOf(rel, source) == targetsOf(rel, source)
getTransPreordersOf(source) == targetsOf(transPreorders, source)
getUsedPreordersOf(source) == targetsOf(preordersToEval, source)
getUsedRelationsOf(source) == targetsOf(relationsToEval, source)

---------------------------------------------------------------------------
(* editState *)

\* worlds.every(f => f === state || want === valuation(p, f)), where the
\* console.log before it calls valuation(p, f) first and valuation throws on
\* a slot that is not live: "true", "false" or "throw".
RECURSIVE everyWorld(_, _, _, _, _)
everyWorld(st, worlds, state, p, want) ==
  IF worlds = <<>> THEN "true"
  ELSE LET f == Head(worlds) IN
       IF ~Live(st, f) THEN "throw"
       ELSE IF f = state \/ ((p \in Keys(st, f)) = want)
            THEN everyWorld(st, Tail(worlds), state, p, want)
            ELSE "false"

\* Object.keys(assignment).every(p => ...) of the futures check (want = TRUE:
\* entries set true are checked) and of the pasts check (want = FALSE).
RECURSIVE everyKey(_, _, _, _, _)
everyKey(st, worlds, state, upd, want) ==
  IF upd = <<>> THEN "true"
  ELSE LET e == Head(upd)
           r == IF e[2] # want THEN "true"
                ELSE everyWorld(st, worlds, state, e[1], want)
       IN IF r = "true" THEN everyKey(st, worlds, state, Tail(upd), want)
          ELSE r

\* The for-in loop that writes the entries into the state's assignment.
RECURSIVE applyUpdate(_, _)
applyUpdate(a, upd) ==
  IF upd = <<>> THEN a
  ELSE LET e == Head(upd)
           a1 == IF e[2]
                 THEN IF e[1] \in Range(a) THEN a ELSE Append(a, e[1])
                 ELSE SelectSeq(a, LAMBDA x : x # e[1])
       IN applyUpdate(a1, Tail(upd))

\* What editState(state, upd) returns on a live state.
editOutcome(st, pre, state, upd) ==
  LET fut == everyKey(st, getPreordersOf(pre, state), state, upd, TRUE)
  IN IF fut # "true" THEN fut
     ELSE everyKey(st, getPastPreordersOf(pre, state), state, upd, FALSE)

---------------------------------------------------------------------------
(* addState, removeState *)

\* A copy of every key, whatever its value.
processedAll(upd) == [n \in DOMAIN upd |-> upd[n][1]]

\* processedAssignment: the keys whose value is true, in order.
RECURSIVE processed(_)
processed(upd) ==
  IF upd = <<>> THEN <<>>
  ELSE IF Head(upd)[2] THEN <<Head(upd)[1]>> \o processed(Tail(upd))
       ELSE processed(Tail(upd))

\* A filter that drops only the pairs whose source is the state.
purgeSources(l, state) == SelectSeq(l, LAMBDA e : e[1] # state)

\* l.filter(e => !e.includes(state))
purge(l, state) == SelectSeq(l, LAMBDA e : e[1] # state /\ e[2] # state)

---------------------------------------------------------------------------
(* Model strings *)

\* A model string is its sequence of ';'-terminated records.  A record is
\* empty (a removed state), a state record A<names>P<indices>R<indices>, or
\* text that the record pattern of the regular expression does not match.
EmptyRec == [form |-> "empty", A |-> <<>>, P |-> <<>>, R |-> <<>>]
BadRec == [form |-> "bad", A |-> <<>>, P |-> <<>>, R |-> <<>>]
StateRec(a, ps, rs) == [form |-> "state", A |-> a, P |-> ps, R |-> rs]

\* A test of the first record only.
regexTestFirst(str) == Len(str) >= 1 /\ str[1].form # "bad"

\* regex.test(modelString): one or more records, each empty or a state record.
regexTest(str) == Len(str) >= 1 /\ \A n \in DOMAIN str : str[n].form # "bad"

\* stateProperties[0][0].split("").forEach(c => assignment[c] = true): the
\* characters of the first listed name, each a key, in order of first use.
RECURSIVE charKeys(_, _)
charKeys(name, acc) ==
  IF name = <<>> THEN acc
  ELSE charKeys(Tail(name),
                IF <<Head(name)>> \in Range(acc) THEN acc
                ELSE Append(acc, <<Head(name)>>))

decodeAssignment(rec) ==
  charKeys(IF rec.A = <<>> THEN <<>> ELSE rec.A[1], <<>>)

\* The slots pushed by the "restore states" loop.
decodeStates(str) ==
  [n \in DOMAIN str |->
     IF str[n].form = "empty" THEN Null
     ELSE State(decodeAssignment(str[n]))]

\* The addTransition calls of the first "restore transitions" loop, in order:
\* for every record the self-loop, then its P list if it is a state record.
RECURSIVE preorderCalls(_, _)
preorderCalls(str, n) ==
  IF n > Len(str) THEN <<>>
  ELSE <<<<n - 1, n - 1, "preorders">>>>
       \o [x \in DOMAIN str[n].P |-> <<n - 1, str[n].P[x], "preorders">>]
       \o preorderCalls(str, n + 1)

\* The addTransition calls of the second loop.
RECURSIVE relationCalls(_, _)
relationCalls(str, n) ==
  IF n > Len(str) THEN <<>>
  ELSE [x \in DOMAIN str[n].R |-> <<n - 1, str[n].R[x], "relations">>]
       \o relationCalls(str, n + 1)

\* The calls <<source, target, type>> made one after the other on the
\* arrays of m.
RECURSIVE restore(_, _, _)
restore(st, m, calls) ==
  IF calls = <<>> THEN m
  ELSE The({restore(st,
                    IF r.ret = "false" THEN m
                    ELSE [pre |-> r.pre, rel |-> r.rel, closed |-> TRUE],
                    Tail(calls)) :
            r \in {addTransitionCore(st, m.pre, m.rel, Head(calls)[1],
                                     Head(calls)[2], Head(calls)[3])}})

\* _states and the two arrays after loadFromModelString accepted str.
loadCore(pre, rel, str) ==
  LET st == decodeStates(str)
      result(m) == [st |-> st, pre |-> m.pre, rel |-> m.rel,
                    closed |-> m.closed]
  IN result(restore(st, [pre |-> pre, rel |-> rel, closed |-> FALSE],
                    preorderCalls(str, 1) \o relationCalls(str, 1)))

\* Model strings given to loadFromModelString: the empty string, two that
\* the regular expression rejects, and those of one or two good records.
GoodRecords ==
  {EmptyRec, StateRec(<<>>, <<>>, <<>>), StateRec(<<P>>, <<1>>, <<0>>)}
ModelStrings ==
  {<<>>, <<BadRec>>, <<EmptyRec, BadRec>>}
  \cup {<<r>> : r \in GoodRecords}
  \cup {<<r, s>> : r, s \in GoodRecords}

---------------------------------------------------------------------------
(* Preparation for evaluation *)

RECURSIVE dedup(_, _)
dedup(l, out) ==
  IF l = <<>> THEN out
  ELSE dedup(Tail(l), IF listSearch(out, Head(l)) THEN out
                      ELSE Append(out, Head(l)))

RECURSIVE concat(_)
concat(ls) == IF ls = <<>> THEN <<>> ELSE Head(ls) \o concat(Tail(ls))

\* unify(ls): the elements of the lists of ls, each once, in order.
unify(ls) == dedup(concat(ls), <<>>)

\* generateReflexive(): [i, i] for every slot of _states, live or not.
generateReflexive(st) == [n \in DOMAIN st |-> <<n - 1, n - 1>>]

checkForwardConfluence(st, pre, rel) ==
  \A i, j, k \in 0 .. Len(st) - 1 :
    (listSearch(pre, <<i, k>>) /\ listSearch(rel, <<i, j>>))
      => \E m \in 0 .. Len(st) - 1 :
           listSearch(pre, <<j, m>>) /\ listSearch(rel, <<k, m>>)

---------------------------------------------------------------------------
(* Formulas and their evaluation *)

\* The JSON of a wff: one key, holding a variable name or the subformulas.
Prop(p) == [key |-> "prop", prop |-> p, sub |-> <<>>]
Bot == [key |-> "bot", prop |-> <<>>, sub |-> <<>>]
Neg(a) == [key |-> "neg", prop |-> <<>>, sub |-> <<a>>]
Nec(a) == [key |-> "nec", prop |-> <<>>, sub |-> <<a>>]
Poss(a) == [key |-> "poss", prop |-> <<>>, sub |-> <<a>>]
Conj(a, b) == [key |-> "conj", prop |-> <<>>, sub |-> <<a, b>>]
Disj(a, b) == [key |-> "disj", prop |-> <<>>, sub |-> <<a, b>>]
Impl(a, b) == [key |-> "impl", prop |-> <<>>, sub |-> <<a, b>>]
Equi(a, b) == [key |-> "equi", prop |-> <<>>, sub |-> <<a, b>>]

\* A name that every assignment object inherits from Object.prototype.
ToStringKey == <<"t", "o", "S", "t", "r", "i", "n", "g">>
ObjectPrototype == {ToStringKey}

\* !!_states[state].assignment[propvar], or the throw on a slot not live.
valuationOf(st, propvar, state) ==
  IF ~Live(st, state) THEN "throw"
  ELSE IF propvar \in Keys(st, state) \/ propvar \in ObjectPrototype
       THEN "true" ELSE "false"

\* What the evaluator reads of the model: the slots, the three views it
\* queries and the flags.
ModelNow ==
  [st |-> states, trans |-> transPreorders, preEval |-> preordersToEval,
   relEval |-> relationsToEval, rules |-> rules]

\* The connectives on the outcomes a and b of the two subformulas; b is
\* evaluated only where the JavaScript operator evaluates its right operand.
\* a && b
conj(a, b) == The({IF x = "true" THEN b ELSE x : x \in {a}})

\* a || b
disj(a, b) == The({IF x = "false" THEN b ELSE x : x \in {a}})

\* !b || a: the implication with its operands exchanged.
implConverse(a, b) ==
  The({IF x = "true" THEN a ELSE IF x = "false" THEN "true" ELSE x :
       x \in {b}})

\* !a || b
impl(a, b) ==
  The({IF x = "true" THEN b ELSE IF x = "false" THEN "true" ELSE x :
       x \in {a}})

\* a === b
equi(a, b) ==
  The({IF x = "throw" THEN x
       ELSE The({IF y = "throw" THEN y
                 ELSE IF x = y THEN "true" ELSE "false" : y \in {b}}) :
       x \in {a}})

\* _truth(model, state, json): "true", "false", or "throw" when the
\* recursion calls valuation on a slot that is not live or a query returns
\* undefined.  every and some stop at the first element that decides them.
RECURSIVE _truth(_, _, _)
RECURSIVE everyTruth(_, _, _)
RECURSIVE someTruth(_, _, _)
RECURSIVE everyUsedRelation(_, _, _, _)

\* worlds.every(world => _truth(model, world, json))
everyTruth(m, worlds, json) ==
  IF worlds = <<>> THEN "true"
  ELSE The({IF r = "true" THEN everyTruth(m, Tail(worlds), json) ELSE r :
            r \in {_truth(m, Head(worlds), json)}})

\* worlds.some(world => _truth(model, world, json))
someTruth(m, worlds, json) ==
  IF worlds = <<>> THEN "false"
  ELSE The({IF r = "false" THEN someTruth(m, Tail(worlds), json) ELSE r :
            r \in {_truth(m, Head(worlds), json)}})

\* worlds1.every(world1 => getUsedRelationsOf(world1).every(...)) when all,
\* worlds1.every(world1 => getUsedRelationsOf(world1).some(...)) otherwise;
\* getUsedRelationsOf returns undefined for a slot that is not live.
everyUsedRelation(m, worlds1, json, all) ==
  IF worlds1 = <<>> THEN "true"
  ELSE IF ~Live(m.st, Head(worlds1)) THEN "throw"
  ELSE The({IF r = "true"
            THEN everyUsedRelation(m, Tail(worlds1), json, all) ELSE r :
            r \in {IF all
                   THEN everyTruth(m, targetsOf(m.relEval, Head(worlds1)),
                                   json)
                   ELSE someTruth(m, targetsOf(m.relEval, Head(worlds1)),
                                  json)}})

_truth(m, state, json) ==
  IF json.key = "bot" THEN "false"
  ELSE IF json.key = "prop" THEN valuationOf(m.st, json.prop, state)
  ELSE IF json.key = "neg"
    THEN IF ~Live(m.st, state) THEN "throw"
         ELSE everyTruth(m, targetsOf(m.trans, state),
                         Impl(json.sub[1], Bot))
  ELSE IF json.key = "conj"
    THEN conj(_truth(m, state, json.sub[1]), _truth(m, state, json.sub[2]))
  ELSE IF json.key = "disj"
    THEN disj(_truth(m, state, json.sub[1]), _truth(m, state, json.sub[2]))
  ELSE IF json.key = "impl"
    THEN impl(_truth(m, state, json.sub[1]), _truth(m, state, json.sub[2]))
  ELSE IF json.key = "equi"
    THEN equi(_truth(m, state, json.sub[1]), _truth(m, state, json.sub[2]))
  ELSE IF ~Live(m.st, state) THEN "throw"
  ELSE IF json.key = "nec"
    THEN everyUsedRelation(m, targetsOf(m.preEval, state), json.sub[1], TRUE)
  ELSE IF json.key = "poss"
    THEN IF ~m.rules[3]
         THEN everyUsedRelation(m, targetsOf(m.preEval, state), json.sub[1],
                                FALSE)
         ELSE someTruth(m, targetsOf(m.relEval, state), json.sub[1])
  ELSE "throw"

\* A value that is not an MPL.Wff.
NotWff == [key |-> "none", prop |-> <<>>, sub |-> <<>>]

\* truth without its check of the state index.
truthOfUnchecked(isModel, m, state, wff) ==
  IF ~isModel THEN "Invalid model!"
  ELSE IF wff = NotWff THEN "Invalid wff!"
  ELSE _truth(m, state, wff)

\* The body of truth(model, state, wff); isModel: model instanceof MPL.Model.
truthOf(isModel, m, state, wff) ==
  IF ~isModel THEN "Invalid model!"
  ELSE IF ~Live(m.st, state) THEN "State not found!"
  ELSE IF wff = NotWff THEN "Invalid wff!"
  ELSE _truth(m, state, wff)

\* The wffs evaluated.
Wffs ==
  {Prop(P), Prop(Q), Prop(ToStringKey), Neg(Prop(P)), Nec(Prop(P)), Poss(Prop(P)),
   Conj(Prop(P), Prop(Q)), Disj(Prop(P), Prop(Q)), Impl(Prop(P), Prop(Q)),
   Equi(Prop(P), Prop(Q)), Impl(Prop(P), Nec(Prop(P))),
   Conj(Prop(Q), Neg(Prop(P)))}

---------------------------------------------------------------------------
(* How a call leaves the arrays and the views of them *)

\* The array _preorders holds was pushed into (or left alone); closed says
\* that updateTransitiveClosure("preorders") ran and set _transPreorders to it.
PushedPre(pre, closed) ==
  /\ preorders' = pre
  /\ transPreShared' = (transPreShared \/ closed)
  /\ transPreorders' = IF transPreShared \/ closed THEN pre ELSE transPreorders
  /\ evalPreShared' = evalPreShared
  /\ preordersToEval' = IF evalPreShared THEN pre ELSE preordersToEval

\* _preorders was assigned a new array (filter); closed as above.
AssignedPre(pre, closed) ==
  /\ preorders' = pre
  /\ transPreShared' = closed
  /\ transPreorders' = IF closed THEN pre ELSE transPreorders
  /\ evalPreShared' = FALSE
  /\ preordersToEval' = preordersToEval

\* The array _relations holds was pushed into (or left alone); closed says
\* that updateTransitiveClosure("relations") ran and set _transRelations to it.
PushedRel(rel, closed) ==
  /\ relations' = rel
  /\ transRelShared' = (transRelShared \/ closed)
  /\ transRelations' = IF transRelShared \/ closed THEN rel ELSE transRelations

\* _relations was assigned a new array (filter).
AssignedRel(rel) ==
  /\ relations' = rel
  /\ transRelShared' = FALSE
  /\ transRelations' = transRelations

---------------------------------------------------------------------------
(* Operations *)

\* No call is running; steps counts the steps of the last call that ran
\* step by step.
Idle == [mode |-> "idle", stack |-> <<>>, kind |-> "", n |-> 0, steps |-> 0]

Init ==
  /\ states = <<>>
  /\ preorders = <<>>
  /\ relations = <<>>
  /\ transPreorders = <<>>
  /\ transPreShared = FALSE
  /\ transRelations = <<>>
  /\ transRelShared = FALSE
  /\ preordersToEval = <<>>
  /\ evalPreShared = FALSE
  /\ relationsToEval = <<>>
  /\ rules = <<FALSE, FALSE, FALSE>>
  /\ last = NoCall
  /\ ncalls = 0
  /\ states1 = <<>>
  /\ run = Idle

\* One more call is made, while no other call is running; it is not a call
\* on the single-relation Model.
Calling ==
  /\ run.mode = "idle"
  /\ ncalls < MaxCalls
  /\ ncalls' = ncalls + 1
  /\ UNCHANGED states1

\* A call that runs from its start to its end in one step.
Counted == Calling /\ UNCHANGED run

updateRule(i) ==
  /\ Counted
  /\ rules' = [rules EXCEPT ![i + 1] = ~rules[i + 1]]
  /\ last' = Call("updateRule", i, 0, "", FALSE, "undefined")
  /\ UNCHANGED <<states, preorders, relations, transPreorders, transPreShared,
                 transRelations, transRelShared, preordersToEval,
                 evalPreShared, relationsToEval>>

updateTransitiveClosure(typeS) ==
  /\ Counted
  /\ IF typeS = "preorders"
     THEN /\ \E pre \in {transitiveClosure(preorders, Len(states))} :
               PushedPre(pre, TRUE)
          /\ UNCHANGED <<relations, transRelations, transRelShared>>
     ELSE /\ \E rel \in {transitiveClosure(relations, Len(states))} :
               PushedRel(rel, TRUE)
          /\ UNCHANGED <<preorders, transPreorders, transPreShared,
                         preordersToEval, evalPreShared>>
  /\ last' = Call("updateTransitiveClosure", 0, 0, typeS, FALSE,
                  "undefined")
  /\ UNCHANGED <<states, relationsToEval, rules>>

addTransition(source, target, type) ==
  /\ Counted
  /\ \E r \in {addTransitionCore(states, preorders, relations, source,
                                 target, type)} :
       /\ PushedPre(r.pre, r.closed)
       /\ PushedRel(r.rel, FALSE)
       /\ last' = Call("addTransition", source, target, type,
                       Live(states, source), r.ret)
  /\ UNCHANGED <<states, relationsToEval, rules>>

removeTransition(source, target, type) ==
  /\ Counted
  /\ IF ~Live(states, source)
     THEN UNCHANGED <<preorders, relations, transPreorders, transPreShared,
                      transRelations, transRelShared, preordersToEval,
                      evalPreShared>>
     ELSE IF type = "preorders"
     THEN /\ \E pre \in {transitiveClosure(
                            listRemove(preorders, <<source, target>>),
                            Len(states))} : AssignedPre(pre, TRUE)
          /\ UNCHANGED <<relations, transRelations, transRelShared>>
     ELSE /\ AssignedRel(listRemove(relations, <<source, target>>))
          /\ UNCHANGED <<preorders, transPreorders, transPreShared,
                         preordersToEval, evalPreShared>>
  /\ last' = Call("removeTransition", source, target, type,
                  Live(states, source), "undefined")
  /\ UNCHANGED <<states, relationsToEval, rules>>

\* An addState that fills the first slot left by a removed state, if any.
addStateReusing(assignment) ==
  /\ Counted
  /\ Len(states) < MaxStates
  /\ \E slot \in {IF \E n \in DOMAIN states : ~states[n].live
                  THEN CHOOSE n \in DOMAIN states :
                         /\ ~states[n].live
                         /\ \A x \in 1 .. n - 1 : states[x].live
                  ELSE Len(states) + 1} :
       /\ states' = [n \in 1 .. (IF slot > Len(states) THEN slot
                                 ELSE Len(states)) |->
                       IF n = slot THEN State(processed(assignment))
                       ELSE states[n]]
       /\ PushedPre(Append(preorders, <<slot - 1, slot - 1>>), FALSE)
       /\ last' = Call("addState", slot - 1, 0, "", FALSE, "undefined")
  /\ UNCHANGED <<relations, transRelations, transRelShared, relationsToEval,
                 rules>>

addState(assignment) ==
  /\ Counted
  /\ Len(states) < MaxStates
  /\ states' = Append(states, State(processed(assignment)))
  /\ PushedPre(Append(preorders, <<Len(states), Len(states)>>), FALSE)
  /\ last' = Call("addState", Len(states), 0, "", FALSE, "undefined")
  /\ UNCHANGED <<relations, transRelations, transRelShared, relationsToEval,
                 rules>>

editState(state, assignment) ==
  /\ Counted
  /\ \E out \in {IF Live(states, state)
                 THEN editOutcome(states, preorders, state, assignment)
                 ELSE "false"} :
       /\ states' = IF Live(states, state) /\ out = "true"
                    THEN [states EXCEPT ![state + 1].assignment =
                            applyUpdate(@, assignment)]
                    ELSE states
       /\ last' = Call("editState", state, 0, "", Live(states, state), out)
  /\ UNCHANGED <<preorders, relations, transPreorders, transPreShared,
                 transRelations, transRelShared, preordersToEval,
                 evalPreShared, relationsToEval, rules>>

removeState(state) ==
  /\ Counted
  /\ IF ~Live(states, state)
     THEN UNCHANGED <<states, preorders, relations, transPreorders,
                      transPreShared, transRelations, transRelShared,
                      preordersToEval, evalPreShared>>
     ELSE /\ states' = [states EXCEPT ![state + 1] = Null]
          /\ AssignedPre(purge(preorders, state), FALSE)
          /\ AssignedRel(purge(relations, state))
  /\ last' = Call("removeState", state, 0, "", Live(states, state),
                  "undefined")
  /\ UNCHANGED <<relationsToEval, rules>>

loadFromModelString(modelString) ==
  /\ Counted
  /\ IF ~regexTest(modelString)
     THEN UNCHANGED <<states, preorders, relations, transPreorders,
                      transPreShared, transRelations, transRelShared,
                      preordersToEval, evalPreShared>>
     ELSE \E r \in {loadCore(preorders, relations, modelString)} :
             /\ states' = r.st
             /\ PushedPre(r.pre, r.closed)
             /\ PushedRel(r.rel, FALSE)
  /\ last' = Call("loadFromModelString", 0, 0, "", FALSE, "undefined")
  /\ UNCHANGED <<relationsToEval, rules>>

pretruth ==
  /\ Counted
  /\ \E pre \in {transitiveClosure(preorders, Len(states))},
        rel \in {transitiveClosure(relations, Len(states))} :
       /\ preorders' = pre
       /\ transPreorders' = pre
       /\ transPreShared' = TRUE
       /\ preordersToEval' = pre
       /\ evalPreShared' = TRUE
       /\ PushedRel(rel, TRUE)
       /\ relationsToEval' =
            unify(IF rules[1] THEN <<rel, generateReflexive(states)>>
                  ELSE <<rel>>)
       /\ last' = Call("pretruth", 0, 0, "", FALSE,
                       IF rules[2] /\ ~checkForwardConfluence(states, pre, rel)
                       THEN "Confluence check failed" ELSE "")
  /\ UNCHANGED <<states, rules>>

Next ==
  \/ \E i \in 0 .. 2 : updateRule(i)
  \/ \E typeS \in Kinds : updateTransitiveClosure(typeS)
  \/ \E source, target \in Idx, type \in Kinds :
       addTransition(source, target, type)
  \/ \E source, target \in Idx, type \in Kinds :
       removeTransition(source, target, type)
  \/ \E assignment \in Updates : addState(assignment)
  \/ \E state \in Idx, assignment \in Updates : editState(state, assignment)
  \/ \E state \in Idx : removeState(state)
  \/ \E modelString \in ModelStrings : loadFromModelString(modelString)
  \/ pretruth

Spec == Init /\ [][Next]_vars

---------------------------------------------------------------------------
(* Queries: calls that read the model and change nothing *)

\* A query and what it returned; arg is the wff or the variable name given.
Query(op, src, arg, kind, live, ret) ==
  [op |-> op, src |-> src, tgt |-> 0, kind |-> kind, live |-> live,
   ret |-> ret, arg |-> arg]

ModelVars ==
  <<states, preorders, relations, transPreorders, transPreShared,
    transRelations, transRelShared, preordersToEval, evalPreShared,
    relationsToEval, rules>>

\* truth with the call of model._pretruth() that lines 728-729 keep in a
\* comment made before the evaluation.
truthPreparing(isModel, state, wff) ==
  /\ Counted
  /\ \E pre \in {transitiveClosure(preorders, Len(states))},
        rel \in {transitiveClosure(relations, Len(states))} :
       /\ preorders' = pre
       /\ transPreorders' = pre
       /\ transPreShared' = TRUE
       /\ preordersToEval' = pre
       /\ evalPreShared' = TRUE
       /\ PushedRel(rel, TRUE)
       /\ relationsToEval' =
            unify(IF rules[1] THEN <<rel, generateReflexive(states)>>
                  ELSE <<rel>>)
  /\ last' = Query("truth", state, wff, IF isModel THEN "Model" ELSE "other",
                   Live(states, state), truthOf(isModel, ModelNow, state, wff))
  /\ UNCHANGED <<states, rules>>

\* MPL.truth(model, state, wff); isModel: the first argument is this Model
\* (otherwise some value that is not an MPL.Model).
truth(isModel, state, wff) ==
  /\ Counted
  /\ last' = Query("truth", state, wff, IF isModel THEN "Model" ELSE "other",
                   Live(states, state), truthOf(isModel, ModelNow, state, wff))
  /\ UNCHANGED ModelVars

\* model.valuation(propvar, state)
valuation(propvar, state) ==
  /\ Counted
  /\ last' = Query("valuation", state, propvar, "", Live(states, state),
                   valuationOf(states, propvar, state))
  /\ UNCHANGED ModelVars

\* model.checkForwardConfluence()
callCheckForwardConfluence ==
  /\ Counted
  /\ last' = Query("checkForwardConfluence", 0, <<>>, "", FALSE,
                   IF checkForwardConfluence(states, preorders, relations)
                   THEN "true" ELSE "false")
  /\ UNCHANGED ModelVars

\* Arguments given to truth: every wff and a non-wff on this model, and two
\* calls per state with a first argument that is no Model.
TruthArgs ==
  ({TRUE} \X Idx \X (Wffs \cup {NotWff}))
    \cup ({FALSE} \X Idx \X {Prop(P), NotWff})

\* Two more model strings: 'AP1R2;APR;APR;' and 'AP1R;ApPR1;'.
ConfluenceExample ==
  <<StateRec(<<>>, <<1>>, <<2>>), StateRec(<<>>, <<>>, <<>>),
    StateRec(<<>>, <<>>, <<>>)>>
DiamondExample ==
  <<StateRec(<<>>, <<1>>, <<>>), StateRec(<<P>>, <<>>, <<1>>)>>

NextEval ==
  \/ Next
  \/ \E modelString \in {ConfluenceExample, DiamondExample} :
       loadFromModelString(modelString)
  \/ \E a \in TruthArgs : truth(a[1], a[2], a[3])
  \/ \E propvar \in PropVars \cup ObjectPrototype, state \in Idx :
       valuation(propvar, state)
  \/ callCheckForwardConfluence

SpecEval == Init /\ [][NextEval]_vars

\* One more model string, 'APR1;APR0;': two states, each the relation
\* successor of the other.
CycleExample ==
  <<StateRec(<<>>, <<>>, <<1>>), StateRec(<<>>, <<>>, <<0>>)>>

NextClosure ==
  \/ Next
  \/ \E modelString \in {CycleExample} : loadFromModelString(modelString)

SpecClosure == Init /\ [][NextClosure]_vars

---------------------------------------------------------------------------
(* Model strings written by the model *)

\* getModelString(): for every slot a record, empty for a removed state,
\* otherwise 'A' + Object.keys(assignment).join() + 'P' +
\* getPreordersOf(i).join() + 'R' + getRelationsOf(i).join().
getModelStringOf(st, pre, rel) ==
  [n \in DOMAIN st |->
     IF st[n].live
     THEN StateRec(st[n].assignment, getPreordersOf(pre, n - 1),
                   getRelationsOf(rel, n - 1))
     ELSE EmptyRec]

\* model.getModelString()
getModelString ==
  /\ Counted
  /\ last' = Query("getModelString", 0, <<>>, "", FALSE,
                   getModelStringOf(states, preorders, relations))
  /\ UNCHANGED ModelVars

\* The calls that build and edit a model by hand, and the export of it.
NextEdit ==
  \/ \E assignment \in Updates : addState(assignment)
  \/ \E state \in Idx : removeState(state)
  \/ \E source, target \in Idx, type \in Kinds :
       addTransition(source, target, type)
  \/ \E source, target \in Idx, type \in Kinds :
       removeTransition(source, target, type)
  \/ \E state \in Idx, assignment \in Updates : editState(state, assignment)
  \/ getModelString

SpecEdit == Init /\ [][NextEdit]_vars

\* Model strings whose A segments list one name, two names and a name of
\* two characters: 'ApPR;;', 'Ap,qPR;', 'ApqPR;', and one that is rejected.
PQ == <<"p", "q">>
CodecStrings ==
  {<<StateRec(<<P>>, <<>>, <<>>), EmptyRec>>,
   <<StateRec(<<P, Q>>, <<>>, <<>>)>>,
   <<StateRec(<<PQ>>, <<>>, <<>>)>>,
   <<BadRec>>}

NextCodec ==
  \/ NextEdit
  \/ \E modelString \in CodecStrings : loadFromModelString(modelString)

SpecCodec == Init /\ [][NextCodec]_vars

---------------------------------------------------------------------------
(* Properties *)

Pairs(l) == Range(l)
Mentions(e, s) == e[1] = s \/ e[2] = s
TrueAt(st, p, s) == Live(st, s) /\ p \in Keys(st, s)

\* The states reachable from the states of S by zero or more edges of E.
RECURSIVE Reach(_, _)
Reach(E, S) ==
  LET N == S \cup {e[2] : e \in {x \in E : x[1] \in S}}
  IN IF N = S THEN S ELSE Reach(E, N)

\* The states reachable from s by one or more edges of E.
ReachableFrom(E, s) == Reach(E, {e[2] : e \in {x \in E : x[1] = s}})

\* C1: for every pair (s,t) of the preorder set whose states are both live,
\* every variable true at s is true at t.
C1_Monotonicity ==
  \A e \in Pairs(preorders) :
    (Live(states, e[1]) /\ Live(states, e[2]))
      => \A p \in PropVars : TrueAt(states, p, e[1]) => TrueAt(states, p, e[2])

\* C2: addTransition(source, target, 'preorders') on two live states returns
\* false and changes neither the states nor either edge list exactly when
\* some variable true at source is not true at target; otherwise it returns
\* true and (source, target) is in the preorder set afterwards.
C2_AddPreorderChecked ==
  [][(/\ last'.op = "addTransition"
      /\ last'.kind = "preorders"
      /\ Live(states, last'.src)
      /\ Live(states, last'.tgt))
     => IF \E p \in PropVars : /\ TrueAt(states, p, last'.src)
                               /\ ~TrueAt(states, p, last'.tgt)
        THEN /\ last'.ret = "false"
             /\ states' = states
             /\ preorders' = preorders
             /\ relations' = relations
        ELSE /\ last'.ret = "true"
             /\ <<last'.src, last'.tgt>> \in Pairs(preorders')]_vars

\* A preorder addTransition on two live states was rejected.
C2_Witness ==
  /\ last.op = "addTransition"
  /\ last.kind = "preorders"
  /\ last.ret = "false"
  /\ Live(states, last.src)
  /\ Live(states, last.tgt)
  /\ \E p \in PropVars : /\ TrueAt(states, p, last.src)
                         /\ ~TrueAt(states, p, last.tgt)

\* The update would set a variable true that a preorder successor other than
\* the state does not have true, or false one that a predecessor has true.
BreaksMonotonicity(state, upd) ==
  \E n \in DOMAIN upd :
    IF upd[n][2]
    THEN \E e \in Pairs(preorders) :
           e[1] = state /\ e[2] # state /\ ~TrueAt(states, upd[n][1], e[2])
    ELSE \E e \in Pairs(preorders) :
           e[2] = state /\ e[1] # state /\ TrueAt(states, upd[n][1], e[1])

\* C3: editState on a live state is all-or-nothing: an update that would
\* break monotonicity at a successor or a predecessor returns false and
\* leaves the assignment as it was; any other update returns true with every
\* entry applied.
C3_EditAllOrNothing ==
  [][(last'.op = "editState" /\ last'.live)
     => \A upd \in Updates :
          editState(last'.src, upd)
            => IF BreaksMonotonicity(last'.src, upd)
               THEN last'.ret = "false" /\ states' = states
               ELSE /\ last'.ret = "true"
                    /\ Len(states') = Len(states)
                    /\ \A s \in 0 .. Len(states) - 1 :
                         IF s # last'.src THEN states'[s + 1] = states[s + 1]
                         ELSE /\ states'[s + 1].live
                              /\ Keys(states', s) =
                                   (Keys(states, s)
                                      \cup {upd[n][1] : n \in {x \in DOMAIN upd : upd[x][2]}})
                                   \ {upd[n][1] : n \in {x \in DOMAIN upd : ~upd[x][2]}}
    ]_vars

\* C4: removeState(s) on a live state leaves slot s null and no pair with s
\* in either edge list, keeps every other pair and every other slot; on an
\* index that holds no state it changes nothing.
C4_RemoveState ==
  [][last'.op = "removeState"
     => IF Live(states, last'.src)
        THEN /\ Len(states') = Len(states)
             /\ \A s \in 0 .. Len(states) - 1 :
                  states'[s + 1] = IF s = last'.src THEN Null
                                   ELSE states[s + 1]
             /\ Pairs(preorders') =
                  {e \in Pairs(preorders) : ~Mentions(e, last'.src)}
             /\ Pairs(relations') =
                  {e \in Pairs(relations) : ~Mentions(e, last'.src)}
        ELSE UNCHANGED <<states, preorders, relations, transPreorders,
                         transRelations, preordersToEval, relationsToEval,
                         rules>>]_vars

\* removeState was called on a live state that had an edge to another state:
\* the view of the preorders taken before still shows the edge.
C4_Witness ==
  /\ last.op = "removeState"
  /\ last.live
  /\ states[last.src + 1] = Null
  /\ \E e \in Pairs(transPreorders) : e[1] = last.src /\ e[2] # last.src
  /\ \E s \in Idx : Live(states, s) /\ <<s, s>> \in Pairs(preorders)

\* C5: no pair of the preorder list or of the relation list mentions an index
\* whose slot is null or beyond the slots allotted.
C5_TombstoneIntegrity ==
  \A e \in Pairs(preorders) \cup Pairs(relations) :
    Live(states, e[1]) /\ Live(states, e[2])

\* C6: every live state s has the pair (s, s) in the preorder list.
C6_Reflexive ==
  \A s \in Idx : Live(states, s) => <<s, s>> \in Pairs(preorders)

\* C7: right after an addState, a removeState or removeTransition that acted,
\* or an addTransition that returned true, getTransPreordersOf(s) is, for every live s, the set of states reachable
\* from s by one or more preorder edges, and the relation closure likewise is
\* that of the relation list.
C7_ClosureFresh ==
  (\/ last.op = "addState"
   \/ last.op \in {"removeState", "removeTransition"} /\ last.live
   \/ last.op = "addTransition" /\ last.ret = "true")
    => \A s \in Idx :
         Live(states, s)
           => /\ Range(getTransPreordersOf(s))
                   = ReachableFrom(Pairs(preorders), s)
              /\ Range(targetsOf(transRelations, s))
                   = ReachableFrom(Pairs(relations), s)

\* C8: updateTransitiveClosure and pretruth leave getPreordersOf(s) and
\* getRelationsOf(s) as they were, for every state s.
C8_ClosureKeepsEdges ==
  [][last'.op \in {"updateTransitiveClosure", "pretruth"}
     => \A s \in Idx :
          Live(states, s)
            => /\ getPreordersOf(preorders', s) = getPreordersOf(preorders, s)
               /\ getRelationsOf(relations', s) = getRelationsOf(relations, s)
    ]_vars

\* The pairs a call was asked to insert into the list of the kind, and those
\* it was asked to remove.
Inserted(kind) ==
  IF last'.op = "addTransition" /\ last'.kind = kind
    THEN {<<last'.src, last'.tgt>>}
  ELSE IF last'.op = "addState" /\ kind = "preorders"
    THEN {<<last'.src, last'.src>>}
  ELSE IF last'.op = "loadFromModelString"
    THEN UNION {{<<c[1], c[2]>> :
                   c \in {x \in Range(preorderCalls(str, 1)
                                        \o relationCalls(str, 1)) :
                            x[3] = kind}} :
                str \in {x \in ModelStrings : loadFromModelString(x)}}
  ELSE {}

Removed(kind, l) ==
  IF last'.op = "removeTransition" /\ last'.kind = kind /\ last'.live
    THEN {<<last'.src, last'.tgt>>}
  ELSE IF last'.op = "removeState" /\ last'.live
    THEN {e \in Pairs(l) : Mentions(e, last'.src)}
  ELSE {}

\* C9: the successor queries return only pairs that a call inserted
\* (addTransition, the self-loop of addState, loadFromModelString) and none
\* has removed since: a call leaves in a list only pairs that were in it and
\* that it was not asked to remove, and pairs it was asked to insert.
C9_DirectSuccessorsOnly ==
  [][/\ Pairs(preorders')
          \subseteq (Pairs(preorders) \ Removed("preorders", preorders))
                      \cup Inserted("preorders")
     /\ Pairs(relations')
          \subseteq (Pairs(relations) \ Removed("relations", relations))
                      \cup Inserted("relations")]_vars

\* C10: removeTransition(source, target, kind) on a live source leaves the
\* pair out of the list of that kind and the list of the other kind as it was.
C10_RemoveTransition ==
  [][(last'.op = "removeTransition" /\ last'.live)
     => IF last'.kind = "preorders"
        THEN /\ <<last'.src, last'.tgt>> \notin Pairs(preorders')
             /\ relations' = relations
        ELSE /\ <<last'.src, last'.tgt>> \notin Pairs(relations')
             /\ preorders' = preorders]_vars

---------------------------------------------------------------------------
(* Properties of the queries *)

LiveStates == {s \in Idx : Live(states, s)}

\* Forward confluence of the two edge sets over the states of the model.
Confluent ==
  \A i, j, k \in LiveStates :
    (<<i, k>> \in Pairs(preorders) /\ <<i, j>> \in Pairs(relations))
      => \E m \in LiveStates :
           <<j, m>> \in Pairs(preorders) /\ <<k, m>> \in Pairs(relations)

\* The three-state model of the example: preorders {(0,0),(1,1),(2,2),(0,1)},
\* relations {(0,2)}.
ExampleModel ==
  /\ LiveStates = {0, 1, 2}
  /\ Pairs(preorders) = {<<0, 0>>, <<1, 1>>, <<2, 2>>, <<0, 1>>}
  /\ Pairs(relations) = {<<0, 2>>}

\* C11: checkForwardConfluence() returns true exactly when for all states
\* i, j, k with (i,k) a preorder pair and (i,j) a relation pair some state m
\* has (j,m) a preorder pair and (k,m) a relation pair; on the three-state
\* example it returns false.
C11_ForwardConfluence ==
  last.op = "checkForwardConfluence"
    => /\ (last.ret = "true") <=> Confluent
       /\ ExampleModel => last.ret = "false"

\* checkForwardConfluence() was called on the example model and returned false.
C11_Witness ==
  /\ last.op = "checkForwardConfluence"
  /\ ExampleModel
  /\ last.ret = "false"

\* truth was called on this model, at a live state, with a wff.
Evaluated ==
  /\ last.op = "truth"
  /\ last.kind = "Model"
  /\ last.live
  /\ last.arg # NotWff

\* C12: with flag 1 set on a model that is not forward-confluent, truth
\* yields the 'Confluence check failed' diagnostic and no boolean; with the
\* flag unset or confluence holding, the preparation step reports nothing.
C12_ConfluenceRefusal ==
  /\ (Evaluated /\ rules[2] /\ ~Confluent)
       => last.ret = "Confluence check failed"
  /\ (last.op = "pretruth" /\ (~rules[2] \/ Confluent)) => last.ret = ""

\* The pairs (s, t) with t reachable from s by one or more edges of E.
ClosureOf(E) ==
  UNION {{<<s, t>> : t \in ReachableFrom(E, s)} : s \in {e[1] : e \in E}}

\* The preorder closure of s, and the effective relation: the closure of the
\* stored relation, plus the self-loops of all slots when flag 0 is set.
PreorderClosure(s) == ReachableFrom(Pairs(preorders), s)
EffectiveRelation ==
  ClosureOf(Pairs(relations))
    \cup (IF rules[1] THEN {<<i, i>> : i \in 0 .. Len(states) - 1} ELSE {})

\* The views the recursion consults are those of the current edge sets and
\* flags: both preorder views hold the closure of the preorder set, and the
\* relation view the closure of the relation set, with the self-loops of all
\* slots when flag 0 is set.
Prepared ==
  /\ Pairs(transPreorders) = ClosureOf(Pairs(preorders))
  /\ Pairs(preordersToEval) = ClosureOf(Pairs(preorders))
  /\ Pairs(relationsToEval) = EffectiveRelation

\* C13: every truth call evaluates against data prepared from the model as it
\* is at the time of the call, whatever mutations or flag toggles came before.
C13_EvaluationPrepared == Evaluated => Prepared

\* A is true at w, as truth evaluates it on the model as it is.
TrueIn(A, w) == _truth(ModelNow, w, A) = "true"

\* C14: with flag 2 unset, Poss(A) is true at s exactly when some w1 in the
\* preorder closure of s and some w2 with (w1, w2) in the effective relation
\* have A true at w2.
C14_PossExists ==
  (Evaluated /\ last.arg.key = "poss" /\ ~rules[3])
    => ((last.ret = "true")
          <=> \E w1 \in PreorderClosure(last.src) :
                \E e \in EffectiveRelation :
                  e[1] = w1 /\ TrueIn(last.arg.sub[1], e[2]))

\* C15: with flag 2 set, Poss(A) is true at s exactly when some w1 with
\* (s, w1) in the effective relation has A true at w1.
C15_PossLocal ==
  (Evaluated /\ last.arg.key = "poss" /\ rules[3])
    => ((last.ret = "true")
          <=> \E e \in EffectiveRelation :
                e[1] = last.src /\ TrueIn(last.arg.sub[1], e[2]))

\* C16: Nec(A) is true at s exactly when A is true at every w2 such that
\* some w1 in the preorder closure of s has (w1, w2) in the effective
\* relation.
C16_NecAll ==
  (Evaluated /\ last.arg.key = "nec")
    => ((last.ret = "true")
          <=> \A w1 \in PreorderClosure(last.src) :
                \A e \in EffectiveRelation :
                  e[1] = w1 => TrueIn(last.arg.sub[1], e[2]))

\* C17: Neg(A) is true at s exactly when A is false at every state of the
\* preorder closure of s, s itself among them; the value is that of
\* Impl(A, Bot) at each such state.
C17_NegAll ==
  (Evaluated /\ last.arg.key = "neg")
    => /\ (last.ret = "true")
            <=> \A w \in PreorderClosure(last.src) \cup {last.src} :
                  _truth(ModelNow, w, last.arg.sub[1]) = "false"
       /\ (last.ret = "true")
            <=> \A w \in PreorderClosure(last.src) \cup {last.src} :
                  TrueIn(Impl(last.arg.sub[1], Bot), w)

\* A boolean outcome.
IsBool(r) == r \in {"true", "false"}

\* C18: Conj, Disj, Impl and Equi are the classical combinations of the truth
\* of their two subformulas at the same state (both, either, not-A-or-B,
\* equal), and Prop(p) is what the model's valuation gives for p at the state.
C18_Classical ==
  Evaluated
    => /\ last.arg.key = "prop"
            => last.ret = valuationOf(states, last.arg.prop, last.src)
       /\ last.arg.key \in {"conj", "disj", "impl", "equi"}
            => \A a, b \in BOOLEAN :
                 (/\ _truth(ModelNow, last.src, last.arg.sub[1])
                       = (IF a THEN "true" ELSE "false")
                  /\ _truth(ModelNow, last.src, last.arg.sub[2])
                       = (IF b THEN "true" ELSE "false"))
                 => last.ret =
                      (IF CASE last.arg.key = "conj" -> a /\ b
                            [] last.arg.key = "disj" -> a \/ b
                            [] last.arg.key = "impl" -> ~a \/ b
                            [] last.arg.key = "equi" -> a = b
                       THEN "true" ELSE "false")

\* An implication was evaluated whose antecedent is true and whose consequent
\* is false at the state.
C18_Witness ==
  /\ Evaluated
  /\ last.arg.key = "impl"
  /\ TrueIn(last.arg.sub[1], last.src)
  /\ _truth(ModelNow, last.src, last.arg.sub[2]) = "false"
  /\ last.ret = "false"

\* The errors truth raises from its own checks, before it calls _truth.
ArgumentErrors == {"Invalid model!", "State not found!", "Invalid wff!"}

\* C19: a truth call whose model is no Model, whose state is a removed or
\* never allotted index, or whose wff is no Wff fails with an error of the
\* argument checks, before any recursive evaluation, and changes nothing in
\* the model.
C19_TruthRejectsArguments ==
  [][(/\ last'.op = "truth"
      /\ (last'.kind = "other" \/ ~last'.live \/ last'.arg = NotWff))
     => /\ last'.ret \in ArgumentErrors
        /\ UNCHANGED ModelVars]_vars

\* truth was called on this model with a wff at the index of a removed
\* state and failed.
C19_Witness ==
  /\ last.op = "truth"
  /\ last.kind = "Model"
  /\ last.arg \in Wffs
  /\ last.src < Len(states)
  /\ states[last.src + 1] = Null
  /\ last.ret = "State not found!"

\* C20: valuation(propvar, state) on a live state returns true when propvar
\* is stored at the state and false for every other name, and on a removed
\* or never allotted index it fails.
C20_Valuation ==
  last.op = "valuation"
    => IF last.live
       THEN last.ret = (IF last.arg \in Keys(states, last.src)
                        THEN "true" ELSE "false")
       ELSE last.ret = "throw"

---------------------------------------------------------------------------
(* Properties of model strings *)

\* A fresh Model after loadFromModelString(str).
LoadedFresh(str) ==
  IF regexTest(str) THEN loadCore(<<>>, <<>>, str)
  ELSE [st |-> <<>>, pre |-> <<>>, rel |-> <<>>, closed |-> FALSE]

\* getStates() of the two arrays agree: null at the same indices and the
\* same true variables at each live index.
SameStates(st1, st2) ==
  /\ Len(st1) = Len(st2)
  /\ \A n \in DOMAIN st1 :
       /\ st1[n].live = st2[n].live
       /\ Range(st1[n].assignment) = Range(st2[n].assignment)

RoundTrips(str) ==
  /\ SameStates(LoadedFresh(str).st, states)
  /\ Pairs(LoadedFresh(str).pre) = Pairs(preorders)
  /\ Pairs(LoadedFresh(str).rel) = Pairs(relations)

\* C21: for a model built by addState, removeState, addTransition,
\* removeTransition and editState, loading getModelString() into a fresh
\* Model yields the same getStates() result and the same preorder and
\* relation edge sets.
C21_ModelStringRoundTrip ==
  last.op = "getModelString" => RoundTrips(last.ret)

\* A string outside the grammar of model strings: no record at all, or some
\* record that is neither empty nor of the form A..P..R..
Malformed(str) == str = <<>> \/ \E n \in DOMAIN str : str[n].form = "bad"

\* C22: loadFromModelString on a string that does not match the grammar
\* leaves states, both edge sets, the derived closures and the rule flags
\* exactly as they were.
C22_MalformedIsNoOp ==
  [][\A str \in ModelStrings :
       (Malformed(str) /\ loadFromModelString(str)) => UNCHANGED ModelVars]_vars

\* A malformed string was given to a model that held states: no string of
\* the grammar decodes to the states the model has after the call.
C22_Witness ==
  /\ last.op = "loadFromModelString"
  /\ states # <<>>
  /\ \A str \in ModelStrings : ~Malformed(str) => decodeStates(str) # states

\* C23: after loadFromModelString accepts a string, the variables true at
\* each decoded live state are exactly the names listed in the A segment of
\* its record, each name whole and every listed name included.
C23_DecodedAssignment ==
  [][\A str \in CodecStrings :
       (~Malformed(str) /\ loadFromModelString(str))
         => \A n \in DOMAIN str :
              str[n].form = "state"
                => Keys(states', n - 1) = Range(str[n].A)]_vars

---------------------------------------------------------------------------
(* Properties of state indices *)

\* C24: state indices are never reused: the array of slots never shrinks, a
\* removed index stays null, an addState allots the index after every index
\* allotted before it, and an addState or removeState leaves every other
\* live state at its index.
C24_IndicesNeverReused ==
  [][/\ Len(states') >= Len(states)
     /\ \A n \in DOMAIN states : ~states[n].live => ~states'[n].live
     /\ last'.op = "addState"
          => /\ Len(states') = Len(states) + 1
             /\ states'[Len(states')].live
     /\ last'.op \in {"addState", "removeState"}
          => \A n \in DOMAIN states :
               (states[n].live
                  /\ ~(last'.op = "removeState" /\ last'.src = n - 1))
                 => states'[n] = states[n]]_vars

\* A state was added after an earlier state had been removed: the removed
\* index is still null and the new state has a greater index.
C24_Witness ==
  /\ last.op = "addState"
  /\ Live(states, last.src)
  /\ \E i \in 0 .. last.src - 1 : ~Live(states, i)

\* C25: addState returns the index of the state it created, the slot count
\* before the call; after the call that slot is live and (index, index) is
\* in the preorder set.
C25_AddStateReturnsIndex ==
  last.op = "addState"
    => /\ last.ret = ToString(last.src)
       /\ last.src = Len(states) - 1
       /\ Live(states, last.src)
       /\ <<last.src, last.src>> \in Pairs(preorders)

---------------------------------------------------------------------------
(* Properties of the closure computation *)

\* The pairs (i, j) with j reachable from i by one or more edges of E.
TransitiveClosureOf(E) ==
  {e \in {x[1] : x \in E} \X {x[2] : x \in E} :
     e[2] \in ReachableFrom(E, e[1])}

\* C30: updateTransitiveClosure(kind) leaves as derived set exactly the
\* transitive closure of the edge set as it was before the call.
C30_ClosureExact ==
  [][last'.op = "updateTransitiveClosure"
       => IF last'.kind = "preorders"
          THEN Pairs(transPreorders') = TransitiveClosureOf(Pairs(preorders))
          ELSE Pairs(transRelations') = TransitiveClosureOf(Pairs(relations))]_vars

---------------------------------------------------------------------------
(* Properties of a model of one state *)

\* The model has the single state 0, live, with the preorder self-loop as
\* its only preorder pair and no relation pair but possibly (0, 0).
SingleState ==
  /\ Len(states) = 1
  /\ Live(states, 0)
  /\ Pairs(preorders) = {<<0, 0>>}
  /\ Pairs(relations) \subseteq {<<0, 0>>}

\* C28: in a model whose only state is s: without a relation edge every
\* Nec(A) is true at s and every Poss(A) is false at s, so (p -> []p) is true
\* when p is true at s; with the relation edge (s, s), Nec(A) and Poss(A) at s
\* both equal the truth of A at s.
C28_SingleState ==
  (Evaluated /\ SingleState)
    => /\ (relations = <<>> /\ last.arg.key = "nec") => last.ret = "true"
       /\ (relations = <<>> /\ last.arg.key = "poss") => last.ret = "false"
       /\ (/\ relations = <<>>
           /\ last.arg = Impl(Prop(P), Nec(Prop(P)))
           /\ TrueAt(states, P, 0)) => last.ret = "true"
       /\ (relations # <<>> /\ last.arg.key \in {"nec", "poss"})
            => last.ret = _truth(ModelNow, 0, last.arg.sub[1])

---------------------------------------------------------------------------
(* The regular-expression parser and the printer of MPL 1.0.0 *)

\* Strings are sequences of characters.  \w: the word characters in use.
WordChars == {"p", "q", "1"}
isWord(c) == c \in WordChars

\* What wffToJSON yields when it throws.
InvalidFormula == [key |-> "Invalid formula!", prop |-> <<>>, sub |-> <<>>]
TypeError == [key |-> "TypeError", prop |-> <<>>, sub |-> <<>>]
InvalidJSON == <<"Invalid JSON for formula!">>

\* The binary connectives in the order in which their expressions are tried.
Connectives ==
  <<[key |-> "conj", symbol |-> <<"&">>],
    [key |-> "disj", symbol |-> <<"|">>],
    [key |-> "impl", symbol |-> <<"-", ">">>],
    [key |-> "equi", symbol |-> <<"<", "-", ">">>]>>

\* str.match(/\S+/g).join(''): match yields null, and join throws, when str
\* has no character that is not whitespace.
_removeWhitespace(str) ==
  IF \A n \in DOMAIN str : str[n] = " " THEN <<"TypeError">>
  ELSE SelectSeq(str, LAMBDA c : c # " ")

\* symbol occurs in w at position i.
symbolAt(w, i, symbol) ==
  /\ i >= 1
  /\ i + Len(symbol) - 1 <= Len(w)
  /\ SubSeq(w, i, i + Len(symbol) - 1) = symbol

\* (?:~|\[\]|<>)* from position i, not beyond position e: the position after
\* the longest run of unary connectives.
RECURSIVE afterUnaries(_, _, _)
afterUnaries(w, i, e) ==
  IF i <= e /\ w[i] = "~" THEN afterUnaries(w, i + 1, e)
  ELSE IF i + 1 <= e /\ (symbolAt(w, i, <<"[", "]">>)
                           \/ symbolAt(w, i, <<"<", ">">>))
  THEN afterUnaries(w, i + 2, e)
  ELSE i

\* subwffPart matches w from position i to position e exactly: unary
\* connectives, then either word characters only or '(' ... ')'.
subwffPart(w, i, e) ==
  /\ i <= e
  /\ \E j \in {afterUnaries(w, i, e)} :
       /\ j <= e
       /\ \/ \A x \in j .. e : isWord(w[x])
          \/ w[j] = "(" /\ w[e] = ")" /\ j < e

\* wff.match(<symbol>RegEx): the two captured subwffs, or <<>> for null.
\* The first group is greedy, so of the ends it can have the last is taken.
matchBinary(w, symbol) ==
  IF Len(w) < 2 \/ w[1] # "(" \/ w[Len(w)] # ")" THEN <<>>
  ELSE LET ends == {e \in 2 .. Len(w) - 1 :
                      /\ subwffPart(w, 2, e)
                      /\ symbolAt(w, e + 1, symbol)
                      /\ subwffPart(w, e + 1 + Len(symbol), Len(w) - 1)}
       IN IF ends = {} THEN <<>>
          ELSE LET e == CHOOSE x \in ends : \A y \in ends : y <= x
               IN <<SubSeq(w, 2, e),
                    SubSeq(w, e + 1 + Len(symbol), Len(w) - 1)>>

\* propRegEx.test(wff)
propRegEx(w) == w # <<>> /\ \A n \in DOMAIN w : isWord(w[n])

\* The first connective whose expression matches w, or 0.
firstMatch(w) ==
  IF \E n \in DOMAIN Connectives : matchBinary(w, Connectives[n].symbol) # <<>>
  THEN CHOOSE n \in DOMAIN Connectives :
         /\ matchBinary(w, Connectives[n].symbol) # <<>>
         /\ \A x \in 1 .. n - 1 : matchBinary(w, Connectives[x].symbol) = <<>>
  ELSE 0

\* A node over the parsed subformulas, or the error one of them threw.
node(key, subs) ==
  IF \E n \in DOMAIN subs : subs[n] = InvalidFormula THEN InvalidFormula
  ELSE [key |-> key, prop |-> <<>>, sub |-> subs]

RECURSIVE _wffToJSON(_)
_wffToJSON(wff) ==
  IF propRegEx(wff) THEN Prop(wff)
  ELSE IF symbolAt(wff, 1, <<"~">>)
  THEN node("neg", <<_wffToJSON(SubSeq(wff, 2, Len(wff)))>>)
  ELSE IF symbolAt(wff, 1, <<"[", "]">>)
  THEN node("nec", <<_wffToJSON(SubSeq(wff, 3, Len(wff)))>>)
  ELSE IF symbolAt(wff, 1, <<"<", ">">>)
  THEN node("poss", <<_wffToJSON(SubSeq(wff, 3, Len(wff)))>>)
  ELSE The({IF n = 0 THEN InvalidFormula
            ELSE The({node(Connectives[n].key,
                           <<_wffToJSON(subwffs[1]), _wffToJSON(subwffs[2])>>) :
                      subwffs \in {matchBinary(wff, Connectives[n].symbol)}}) :
            n \in {firstMatch(wff)}})

wffToJSON(wff) ==
  The({IF w = <<"TypeError">> THEN TypeError ELSE _wffToJSON(w) :
       w \in {_removeWhitespace(wff)}})

RECURSIVE jsonToWff(_)
jsonToWff(json) ==
  IF json.key = "prop" /\ json.prop # <<>> THEN json.prop
  ELSE IF json.key = "neg" THEN <<"~">> \o jsonToWff(json.sub[1])
  ELSE IF json.key = "nec" THEN <<"[", "]">> \o jsonToWff(json.sub[1])
  ELSE IF json.key = "poss" THEN <<"<", ">">> \o jsonToWff(json.sub[1])
  ELSE IF \E n \in DOMAIN Connectives : Connectives[n].key = json.key
  THEN LET c == CHOOSE n \in DOMAIN Connectives :
                  Connectives[n].key = json.key
       IN <<"(">> \o jsonToWff(json.sub[1]) \o <<" ">>
            \o Connectives[c].symbol \o <<" ">>
            \o jsonToWff(json.sub[2]) \o <<")">>
  ELSE InvalidJSON

\* Variable names: one of one character, and one with a letter and a digit.
Q1 == <<"q", "1">>
Names == {P, Q1}

MaxDepth == 2        \* nesting of the formula trees built in full

\* Every formula tree of nesting up to d over Names.
RECURSIVE FormulasOf(_)
FormulasOf(d) ==
  IF d = 0 THEN {Prop(n) : n \in Names}
  ELSE LET F == FormulasOf(d - 1)
       IN F \cup {Neg(a) : a \in F} \cup {Nec(a) : a \in F}
            \cup {Poss(a) : a \in F}
            \cup {Conj(a[1], a[2]) : a \in F \X F}
            \cup {Disj(a[1], a[2]) : a \in F \X F}
            \cup {Impl(a[1], a[2]) : a \in F \X F}
            \cup {Equi(a[1], a[2]) : a \in F \X F}

\* Trees one level deeper: a binary formula whose left operand is a binary
\* formula and whose right operand is a binary formula of binary formulas.
DeepFormulas ==
  LET keys == {Connectives[n].key : n \in DOMAIN Connectives}
      leaves == {Conj(Prop(P), Prop(Q1)), Disj(Prop(P), Prop(Q1))}
  IN {[key |-> k[1], prop |-> <<>>,
       sub |-> <<x[1], [key |-> k[2], prop |-> <<>>,
                        sub |-> <<x[2], x[3]>>]>>] :
        k \in keys \X keys, x \in leaves \X leaves \X leaves}

Formulas == FormulasOf(MaxDepth) \cup DeepFormulas

\* Strings given to wffToJSON as they are: '(p & )', 'p q', '<>', the empty
\* string, and '(p & q1)'.
WffInputs ==
  {<<"(", "p", " ", "&", " ", ")">>, <<"p", " ", "q">>, <<"<", ">">>, <<>>,
   <<"(", "p", " ", "&", " ", "q", "1", ")">>}

\* A call of the parser or of the printer, or a value given to start with:
\* kind is what ret is ("json", "wff" or "error"), printed says that the
\* string parsed was the output of jsonToWff.
WffCall(op, arg, ret, kind, printed) ==
  [op |-> op, arg |-> arg, ret |-> ret, kind |-> kind, printed |-> printed]

InitWff ==
  /\ states = <<>>
  /\ preorders = <<>>
  /\ relations = <<>>
  /\ transPreorders = <<>>
  /\ transPreShared = FALSE
  /\ transRelations = <<>>
  /\ transRelShared = FALSE
  /\ preordersToEval = <<>>
  /\ evalPreShared = FALSE
  /\ relationsToEval = <<>>
  /\ rules = <<FALSE, FALSE, FALSE>>
  /\ last \in {WffCall("given", f, f, "json", FALSE) : f \in Formulas}
               \cup {WffCall("given", w, w, "wff", FALSE) : w \in WffInputs}
  /\ ncalls = 0
  /\ states1 = <<>>
  /\ run = Idle

\* MPL.jsonToWff(json) on the tree at hand.
callJsonToWff ==
  /\ Counted
  /\ last.kind = "json"
  /\ last' = WffCall("jsonToWff", last.ret, jsonToWff(last.ret), "wff", FALSE)
  /\ UNCHANGED ModelVars

\* MPL.wffToJSON(wff) on the string at hand.
callWffToJSON ==
  /\ Counted
  /\ last.kind = "wff"
  /\ \E json \in {wffToJSON(last.ret)} :
       last' = WffCall("wffToJSON", last.ret, json,
                       IF json \in {InvalidFormula, TypeError}
                       THEN "error" ELSE "json",
                       last.op = "jsonToWff")
  /\ UNCHANGED ModelVars

NextWff == callJsonToWff \/ callWffToJSON

SpecWff == InitWff /\ [][NextWff]_vars

\* C26: wffToJSON(jsonToWff(f)) is f for every formula tree f, and
\* jsonToWff(wffToJSON(s)) is s for every string s that jsonToWff produced.
C26_FormulaRoundTrip ==
  [][/\ (last.op = "jsonToWff" /\ last'.op = "wffToJSON")
          => last'.ret = last.arg
     /\ (last.op = "wffToJSON" /\ last.printed /\ last'.op = "jsonToWff")
          => last'.ret = last.arg]_vars

\* The inputs the parser is to reject.
RejectedInputs ==
  {<<"(", "p", " ", "&", " ", ")">>, <<"p", " ", "q">>, <<"<", ">">>, <<>>}

\* C27: the parser rejects '(p & )', 'p q', '<>' and the empty string: it
\* fails and yields no tree.
C27_ParserRejects ==
  (last.op = "wffToJSON" /\ last.arg \in RejectedInputs)
    => last.ret \in {InvalidFormula, TypeError}

---------------------------------------------------------------------------
(* The single-relation Model of MPL 1.0.0: each state keeps the list of    *)
(* its successors.                                                         *)

MaxCalls1 == 4       \* calls made on the single-relation Model in one run

Null1 == [live |-> FALSE, assignment |-> <<>>, successors |-> <<>>]
State1(a) == [live |-> TRUE, assignment |-> a, successors |-> <<>>]

\* What indexes _states: a state index, or a state object, which as a
\* property key is the string '[object Object]'.
IndexKey(i) == [index |-> i]
ObjectKey(state) == [object |-> state]

\* !!_states[key]: no slot is stored under the key of an object.
Live1(st, key) ==
  /\ "index" \in DOMAIN key
  /\ key.index \in 0 .. Len(st) - 1
  /\ st[key.index + 1].live

\* successors.splice(successors.indexOf(target), 1): the first occurrence.
RECURSIVE removeFirst(_, _)
removeFirst(l, target) ==
  IF l = <<>> THEN <<>>
  ELSE IF Head(l) = target THEN Tail(l)
  ELSE <<Head(l)>> \o removeFirst(Tail(l), target)

\* The body of removeTransition(source, target), source given as the key
\* that indexes _states.
removeTransitionOf(st, key, target) ==
  IF ~Live1(st, key) THEN st
  ELSE [st EXCEPT ![key.index + 1].successors = removeFirst(@, target)]

\* _states.forEach(function(source) { if(source) self.removeTransition(
\* source, state); }) from slot n on: the state object is what is passed.
RECURSIVE forEachSource(_, _, _)
forEachSource(st, n, state) ==
  IF n > Len(st) THEN st
  ELSE forEachSource(IF st[n].live
                     THEN removeTransitionOf(st, ObjectKey(st[n]), state)
                     ELSE st,
                     n + 1, state)

\* getSuccessorsOf(source) on a live state.
getSuccessorsOf(st, source) == st[source + 1].successors

\* Assignment objects given to the single-relation Model: at most one entry.
Updates1 == {u \in Updates : Len(u) <= 1}

\* One more call is made on the single-relation Model.
Counted1 == ncalls < MaxCalls1 /\ ncalls' = ncalls + 1 /\ UNCHANGED run

\* addState(assignment): every boolean entry is kept; returns the new index.
addState1(assignment) ==
  /\ Counted1
  /\ Len(states1) < MaxStates
  /\ states1' = Append(states1, State1(assignment))
  /\ last' = Call("addState1", Len(states1), 0, "", FALSE,
                  ToString(Len(states1)))
  /\ UNCHANGED ModelVars

addTransition1(source, target) ==
  /\ Counted1
  /\ states1' = IF Live1(states1, IndexKey(source))
                   /\ Live1(states1, IndexKey(target))
                THEN [states1 EXCEPT ![source + 1].successors =
                                       Append(@, target)]
                ELSE states1
  /\ last' = Call("addTransition1", source, target, "",
                  Live1(states1, IndexKey(source)), "undefined")
  /\ UNCHANGED ModelVars

removeTransition1(source, target) ==
  /\ Counted1
  /\ states1' = removeTransitionOf(states1, IndexKey(source), target)
  /\ last' = Call("removeTransition1", source, target, "",
                  Live1(states1, IndexKey(source)), "undefined")
  /\ UNCHANGED ModelVars

removeState1(state) ==
  /\ Counted1
  /\ states1' = IF ~Live1(states1, IndexKey(state)) THEN states1
                ELSE forEachSource([states1 EXCEPT ![state + 1] = Null1], 1,
                                   state)
  /\ last' = Call("removeState1", state, 0, "",
                  Live1(states1, IndexKey(state)), "undefined")
  /\ UNCHANGED ModelVars

Next1 ==
  \/ \E assignment \in Updates1 : addState1(assignment)
  \/ \E source, target \in Idx : addTransition1(source, target)
  \/ \E source, target \in Idx : removeTransition1(source, target)
  \/ \E state \in Idx : removeState1(state)

Spec1 == Init /\ [][Next1]_vars

\* C29: removeState(s) on a live state of the single-relation Model removes
\* all related transitions: afterwards no live state's successor list
\* contains s.
C29_RemoveStateTransitions ==
  (last.op = "removeState1" /\ last.live)
    => \A i \in Idx :
         Live1(states1, IndexKey(i))
           => last.src \notin Range(getSuccessorsOf(states1, i))

---------------------------------------------------------------------------
(* Properties of what the model stores *)

\* The names an assignment object gives the value v.
NamesSet(assignment, v) ==
  {assignment[n][1] : n \in {m \in DOMAIN assignment : assignment[m][2] = v}}

\* C31: only true entries are stored: addState stores exactly the names
\* whose value is true, and an editState that takes effect leaves every name
\* it sets true stored and every name it sets false not stored.
C31_OnlyTrueStored ==
  [][/\ \A assignment \in Updates :
          addState(assignment)
            => Keys(states', Len(states)) = NamesSet(assignment, TRUE)
     /\ \A state \in Idx, assignment \in Updates :
          (editState(state, assignment) /\ last'.ret = "true")
            => /\ NamesSet(assignment, TRUE) \subseteq Keys(states', state)
               /\ NamesSet(assignment, FALSE) \cap Keys(states', state) = {}
               /\ Keys(states', state) \subseteq
                    Keys(states, state) \cup NamesSet(assignment, TRUE)]_vars

\* An editState took effect on a state that had been loaded or added and
\* left it with q stored and p not stored.
C31_Witness ==
  /\ last.op = "editState"
  /\ last.live
  /\ last.ret = "true"
  /\ Keys(states, last.src) = {Q}

---------------------------------------------------------------------------
(* Properties of the preparation step *)

\* C32: the effective relation built by the preparation step is the stored
\* relation as it was inserted when flag 0 is unset, and the stored relation
\* plus the pair (s, s) of every live state s, and no other pair, when flag
\* 0 is set.
C32_EffectiveRelation ==
  [][last'.op = "pretruth"
       => Pairs(relationsToEval') =
            Pairs(relations)
              \cup (IF rules[1] THEN {<<s, s>> : s \in LiveStates}
                    ELSE {})]_vars

---------------------------------------------------------------------------
(* The read operations *)

\* getStates(): the assignment of every state, null for a removed one.
getStatesOf(st) ==
  [n \in DOMAIN st |-> IF st[n].live THEN st[n].assignment ELSE <<"null">>]

\* model.getStates()
getStates ==
  /\ Counted
  /\ last' = Query("getStates", 0, <<>>, "", FALSE, getStatesOf(states))
  /\ UNCHANGED ModelVars

\* model.getPreordersOf(source); undefined for a removed or unknown state.
callGetPreordersOf(source) ==
  /\ Counted
  /\ last' = Query("getPreordersOf", source, <<>>, "", Live(states, source),
                   IF Live(states, source)
                   THEN getPreordersOf(preorders, source)
                   ELSE <<"undefined">>)
  /\ UNCHANGED ModelVars

\* model.getRelationsOf(source); undefined for a removed or unknown state.
callGetRelationsOf(source) ==
  /\ Counted
  /\ last' = Query("getRelationsOf", source, <<>>, "", Live(states, source),
                   IF Live(states, source)
                   THEN getRelationsOf(relations, source)
                   ELSE <<"undefined">>)
  /\ UNCHANGED ModelVars

\* The wffs given to truth among the read operations.
ReadArgs ==
  {TRUE} \X Idx \X {Prop(P), Nec(Prop(P)), Impl(Prop(P), Poss(Prop(Q))),
                    NotWff}

\* Every operation that changes the model, and every read operation.
NextRead ==
  \/ Next
  \/ \E a \in ReadArgs : truth(a[1], a[2], a[3])
  \/ \E propvar \in PropVars, state \in Idx : valuation(propvar, state)
  \/ callCheckForwardConfluence
  \/ getStates
  \/ \E source \in Idx : callGetPreordersOf(source)
  \/ \E source \in Idx : callGetRelationsOf(source)
  \/ getModelString

SpecRead == Init /\ [][NextRead]_vars

ReadOps ==
  {"truth", "valuation", "checkForwardConfluence", "getStates",
   "getPreordersOf", "getRelationsOf", "getModelString"}

\* C33: the read operations truth, checkForwardConfluence, valuation,
\* getStates, getPreordersOf, getRelationsOf and getModelString leave the
\* states, both edge sets, both derived closures and the rule flags
\* unchanged.
C33_ReadsArePure ==
  [][last'.op \in ReadOps
       => /\ states' = states
          /\ preorders' = preorders
          /\ relations' = relations
          /\ transPreorders' = transPreorders
          /\ transRelations' = transRelations
          /\ rules' = rules]_vars

\* truth has evaluated a modal wff at a live state of a model whose relation
\* the closure recomputation would extend.
C33_Witness ==
  /\ last.op = "truth" /\ last.live /\ last.arg = Nec(Prop(P))
  /\ ~(ClosureOf(Pairs(relations)) \subseteq Pairs(relations))

---------------------------------------------------------------------------
(* Properties of loading over a model *)

\* C34: a successful loadFromModelString replaces the model: after it the
\* states, the preorder set and the relation set are those the string
\* decodes to on a new Model, with no state and no edge of the model as it
\* was before the call remaining.
C34_LoadReplaces ==
  [][\A str \in ModelStrings :
       (~Malformed(str) /\ loadFromModelString(str))
         => /\ states' = LoadedFresh(str).st
            /\ Pairs(preorders') = Pairs(LoadedFresh(str).pre)
            /\ Pairs(relations') = Pairs(LoadedFresh(str).rel)]_vars

---------------------------------------------------------------------------
(* Properties of the edge lists *)

\* The calls that build a model and load one.
NextSets ==
  \/ \E assignment \in Updates : addState(assignment)
  \/ \E state \in Idx : removeState(state)
  \/ \E source, target \in Idx, type \in Kinds :
       addTransition(source, target, type)
  \/ \E source, target \in Idx, type \in Kinds :
       removeTransition(source, target, type)
  \/ \E modelString \in ModelStrings : loadFromModelString(modelString)

SpecSets == Init /\ [][NextSets]_vars

NoPairTwice(l) == \A m, n \in DOMAIN l : l[m] = l[n] => m = n

\* C35: after any sequence of addState, removeState, addTransition,
\* removeTransition and loadFromModelString calls neither the preorder list
\* nor the relation list holds the same pair twice, and adding a pair that is
\* already present leaves the list unchanged.
C35_EdgeSetsAreSets ==
  [][/\ NoPairTwice(preorders')
     /\ NoPairTwice(relations')
     /\ \A source, target \in Idx :
          /\ (/\ listSearch(preorders, <<source, target>>)
              /\ addTransition(source, target, "preorders"))
               => preorders' = preorders
          /\ (/\ listSearch(relations, <<source, target>>)
              /\ addTransition(source, target, "relations"))
               => relations' = relations]_vars

\* One more model string, 'APR;AP2R;APR;': three states, the third a
\* preorder successor of the second.
ChainExample ==
  <<StateRec(<<>>, <<>>, <<>>), StateRec(<<>>, <<2>>, <<>>),
    StateRec(<<>>, <<>>, <<>>)>>

\* The calls after which the preorder set is looked at.
NextOrder ==
  \/ NextSets
  \/ \E state \in Idx, assignment \in Updates : editState(state, assignment)
  \/ \E modelString \in {ChainExample} : loadFromModelString(modelString)

SpecOrder == Init /\ [][NextOrder]_vars

\* C36: after addState, removeState, addTransition of either kind,
\* removeTransition, editState and loadFromModelString the preorder set is
\* transitively closed: with (i,k) and (k,j) it holds (i,j); and
\* addTransition(source, target, 'relations') never changes the preorder set.
C36_PreorderClosed ==
  [][/\ ClosureOf(Pairs(preorders')) \subseteq Pairs(preorders')
     /\ \A source, target \in Idx :
          addTransition(source, target, "relations")
            => Pairs(preorders') = Pairs(preorders)]_vars

---------------------------------------------------------------------------
(* Properties of the recursion of truth *)

\* C37: truth(model, s, wff) started at a live state s queries valuations and
\* successors of live states only: the recursion raises no error for a state
\* that is not there, also when removeState came between the last closure
\* recomputation and the call.
C37_NoRemovedStateVisited == Evaluated => last.ret # "throw"

---------------------------------------------------------------------------
(* truth and updateTransitiveClosure, step by step *)

\* A call _truth(model, state, json) that is still to run.
Frame(state, json) == [state |-> state, json |-> json]

\* The point where a call throws: valuation of a slot that is not live, or
\* a query that returned undefined.
ThrowFrame == Frame(0, [key |-> "throw", prop |-> <<>>, sub |-> <<>>])

\* The frames of _truth(model, world, json) for each world in turn.
framesOf(worlds, json) == [n \in DOMAIN worlds |-> Frame(worlds[n], json)]

\* The callback that logs _truth(model, world, json) and then returns
\* _truth(model, world, json): two calls for each world.
RECURSIVE loggedFramesOf(_, _)
loggedFramesOf(worlds, json) ==
  IF worlds = <<>> THEN <<>>
  ELSE <<Frame(Head(worlds), json), Frame(Head(worlds), json)>>
       \o loggedFramesOf(Tail(worlds), json)

\* worlds1.every(world1 => getUsedRelationsOf(world1).every/some(...)):
\* the calls for the relation successors of each world1, up to a world1
\* whose slot is not live.
RECURSIVE usedRelationFrames(_, _, _)
usedRelationFrames(m, worlds1, json) ==
  IF worlds1 = <<>> THEN <<>>
  ELSE IF ~Live(m.st, Head(worlds1)) THEN <<ThrowFrame>>
  ELSE loggedFramesOf(targetsOf(m.relEval, Head(worlds1)), json)
       \o usedRelationFrames(m, Tail(worlds1), json)

\* The negation calls itself on the same formula.
negExpansionSelf(A) == Neg(A)

\* { impl: [json.neg, { bot: true }] }
negExpansion(A) == Impl(A, Bot)

\* The recursive calls the body of _truth(model, state, json) makes when no
\* && , || , every or some stops early, in the order it makes them; a call
\* that returns early makes the first ones of them only.
callsOf(m, state, json) ==
  IF json.key = "bot" THEN <<>>
  ELSE IF json.key = "prop"
    THEN IF Live(m.st, state) THEN <<>> ELSE <<ThrowFrame>>
  ELSE IF json.key \in {"conj", "disj", "impl", "equi"}
    THEN <<Frame(state, json.sub[1]), Frame(state, json.sub[2])>>
  ELSE IF ~Live(m.st, state) THEN <<ThrowFrame>>
  ELSE IF json.key = "neg"
    THEN framesOf(targetsOf(m.trans, state), negExpansion(json.sub[1]))
  ELSE IF json.key = "nec" \/ (json.key = "poss" /\ ~m.rules[3])
    THEN usedRelationFrames(m, targetsOf(m.preEval, state), json.sub[1])
  ELSE IF json.key = "poss"
    THEN loggedFramesOf(targetsOf(m.relEval, state), json.sub[1])
  ELSE <<ThrowFrame>>

\* The wffs evaluated step by step.
StepWffs ==
  {Prop(P), Neg(Prop(P)), Neg(Neg(Prop(P))), Nec(Nec(Prop(P))),
   Poss(Neg(Prop(P))), Conj(Nec(Prop(P)), Neg(Prop(Q))),
   Equi(Poss(Prop(P)), Prop(Q))}

\* MPL.truth(model, state, wff) is called: it throws at once for a state
\* that is not there, and starts _truth(model, state, wff.json()) otherwise.
startTruth(state, wff) ==
  /\ Calling
  /\ last' = Query("truth", state, wff, "Model", Live(states, state),
                   truthOf(TRUE, ModelNow, state, wff))
  /\ run' = IF Live(states, state)
            THEN [Idle EXCEPT !.mode = "truth",
                              !.stack = <<Frame(state, wff)>>]
            ELSE Idle
  /\ UNCHANGED ModelVars

\* The call on top runs its body: it throws, which ends the evaluation, or
\* its recursive calls take its place.
stepTruth ==
  /\ run.mode = "truth"
  /\ \E rest \in {IF Head(run.stack) = ThrowFrame THEN <<>>
                  ELSE callsOf(ModelNow, Head(run.stack).state,
                               Head(run.stack).json)
                       \o Tail(run.stack)} :
       run' = IF rest = <<>>
              THEN [Idle EXCEPT !.steps = run.steps + 1]
              ELSE [run EXCEPT !.stack = rest, !.steps = @ + 1]
  /\ UNCHANGED <<ModelVars, last, ncalls, states1>>

\* temp after the iteration c of the k, i, j loops.
iteration(temp, l, c) ==
  LET k == c \div (l * l)
      i == (c \div l) % l
      j == c % l
  IN IF /\ listSearch(temp, <<i, k>>)
        /\ listSearch(temp, <<k, j>>)
        /\ ~listSearch(temp, <<i, j>>)
     THEN Append(temp, <<i, j>>)
     ELSE temp

\* updateTransitiveClosure(typeS) is called.
startClosure(typeS) ==
  /\ Calling
  /\ last' = Call("updateTransitiveClosure", 0, 0, typeS, FALSE,
                  "undefined")
  /\ run' = [Idle EXCEPT !.mode = "closure", !.kind = typeS]
  /\ UNCHANGED ModelVars

\* One iteration of the loops, pushing into the array itself; after the
\* last one the derived set is set to the array.
stepClosure ==
  /\ run.mode = "closure"
  /\ \E more \in {run.n < Len(states) * Len(states) * Len(states)} :
       /\ run' = IF more THEN [run EXCEPT !.n = @ + 1, !.steps = @ + 1]
                 ELSE [Idle EXCEPT !.steps = run.steps + 1]
       /\ IF run.kind = "preorders"
          THEN /\ PushedPre(IF more
                            THEN iteration(preorders, Len(states), run.n)
                            ELSE preorders, ~more)
               /\ UNCHANGED <<relations, transRelations, transRelShared>>
          ELSE /\ PushedRel(IF more
                            THEN iteration(relations, Len(states), run.n)
                            ELSE relations, ~more)
               /\ UNCHANGED <<preorders, transPreorders, transPreShared,
                              preordersToEval, evalPreShared>>
  /\ UNCHANGED <<states, relationsToEval, rules, last, ncalls, states1>>

\* Models are loaded, prepared and changed; truth and
\* updateTransitiveClosure run step by step.
NextSteps ==
  \/ \E modelString \in {CycleExample, DiamondExample, ChainExample} :
       loadFromModelString(modelString)
  \/ \E i \in 0 .. 2 : updateRule(i)
  \/ \E state \in Idx : removeState(state)
  \/ pretruth
  \/ \E state \in Idx, wff \in StepWffs : startTruth(state, wff)
  \/ stepTruth
  \/ \E typeS \in Kinds : startClosure(typeS)
  \/ stepClosure

\* JavaScript runs a call to its end: a step that can be taken is taken.
SpecSteps ==
  Init /\ [][NextSteps]_vars /\ WF_vars(stepTruth) /\ WF_vars(stepClosure)

\* A measure of formulas under which Impl(A, Bot) is smaller than Neg(A).
RECURSIVE Size(_)
Size(json) ==
  IF json.key = "throw" THEN 0
  ELSE IF json.key \in {"bot", "prop"} THEN 1
  ELSE IF json.key = "neg" THEN 3 + Size(json.sub[1])
  ELSE IF json.key \in {"nec", "poss"} THEN 1 + Size(json.sub[1])
  ELSE 1 + Size(json.sub[1]) + Size(json.sub[2])

\* The calls that took the place of the call that was on top.
NewFrames ==
  SubSeq(run'.stack, 1, Len(run'.stack) - Len(run.stack) + 1)

\* C38: truth and updateTransitiveClosure terminate on every model: each
\* recursive call of the evaluation is on a smaller formula (Neg(A) counted
\* with its expansion Impl(A, Bot)), the closure recomputation ends after
\* one pass over all index triples, and every call that runs comes to its
\* end.
C38_Terminates ==
  /\ [][/\ (run.mode = "truth" /\ run'.mode = "truth")
            => \A n \in DOMAIN NewFrames :
                 Size(NewFrames[n].json) < Size(Head(run.stack).json)
        /\ (run.mode = "closure" /\ run'.mode = "idle")
            => run'.steps = Len(states) * Len(states) * Len(states) + 1]_vars
  /\ (run.mode # "idle") ~> (run.mode = "idle")

\* A nested modal wff was evaluated to its end on a model whose effective
\* relation has a cycle between two states.
C38_Witness ==
  /\ run.mode = "idle" /\ run.steps > 5
  /\ last.op = "truth" /\ last.arg = Nec(Nec(Prop(P)))
  /\ {<<0, 1>>, <<1, 0>>} \subseteq Pairs(relationsToEval)

---------------------------------------------------------------------------
(* Properties of the exported string *)

\* C39: every string that getModelString() returns passes the test of
\* loadFromModelString's regular expression, for the model with no states
\* and for models whose states are all removed too.
C39_ExportAccepted == last.op = "getModelString" => regexTest(last.ret)

====
